---- MODULE Spec2Model ----
(***************************************************************************)
(* Model of the PCF8574/A driver of src/pcf8574/pcf8574.py (class PCF8574).*)
(* The state is the fields of one PCF8574 instance, the port latch of the  *)
(* expander behind the I2C bus and the interrupt controller of the host.   *)
(* Every public method is one action; observation variables (op, chain,    *)
(* ret, err, bus, args) record the last call, what it returned or raised   *)
(* and which bus transactions it issued.                                   *)
(***************************************************************************)
EXTENDS Integers, Sequences, FiniteSets, TLC

VARIABLES
    directions,     \* self._directions : pin index -> 0 (OUTPUT) / 1 (INPUT) / 2 (UNDEF)
    input,          \* self._input[0]   : input pins bitmask
    inverted,       \* self._inverted[0]: inverted pins bitmask
    lstate,         \* self._lstate[0]  : logical state of pins
    dstate,         \* self._dstate[0]  : digital state of pins
    dstatef,        \* self._dstatef    : flag guarding _read_state/_write_state
    interrupt,      \* self.interrupt   : interruption counter
    changed_pins,   \* self.changed_pins: cell index 0..15 -> byte
    reg,            \* port latch of the expander: <<b>>, b the byte last
                    \* written to it, or <<>> before the first write
    irq,            \* interrupts globally enabled (machine.disable_irq/enable_irq)
    handler,        \* a falling-edge handler (self._alloc_poll) is registered
    op,             \* the last call, <<name, arguments...>>
    chain,          \* how far the last calls got through the sequence
                    \* output_pin(p), write_pin(p, v), read_pin(p):
                    \* <<>>, <<p>>, <<p, v>> or <<p, v, 1>>
    ret,            \* value returned by the last call (-1: None)
    err,            \* exception raised by the last call ("none" if it returned)
    bus,            \* bus transactions issued by the last call, in order
    args,           \* the constructor's arguments <<direction, state, inverted>>
    pc,             \* the line at which the foreground call stands ("idle":
                    \* between calls)
    ipc,            \* the line at which the interrupt handler stands ("idle":
                    \* not running)
    saved,          \* reset_int's local variable state (line 269)
    tmp,            \* the foreground's operand: the byte handed to writeto,
                    \* read_pin's argument pin, the counter loaded by line 272
    edge,           \* a falling edge of the interrupt line waits to be served
    armed,          \* enable_int was called, and disable_int was not since
    net             \* polls completed minus reset_int calls completed, since
                    \* construction or the last disable_int

dev == <<directions, input, inverted, lstate, dstate, dstatef,
         interrupt, changed_pins>>
env == <<reg, irq, handler>>
obs == <<op, chain, ret, err, bus, args>>
irqv == <<pc, ipc, saved, tmp, edge, armed, net>>
vars == <<directions, input, inverted, lstate, dstate, dstatef, interrupt,
          changed_pins, reg, irq, handler, op, chain, ret, err, bus, args,
          pc, ipc, saved, tmp, edge, armed, net>>

----------------------------------------------------------------------------
(* Program constants *)

INPUT == 1
OUTPUT == 0
UNDEF == 2
NPins == 8
NCells == 16

Pins == 0..(NPins - 1)

----------------------------------------------------------------------------
(* Bounds of the model *)

\* The interrupt counter is explored within -MaxInterrupt..MaxInterrupt.
MaxInterrupt == 2

\* The pins the methods are called on.
ArgPins == {0, NPins - 1}

\* Levels that the peripherals impose on the eight lines (0 bit: held low).
LineLevels == {255, 254, 253}

\* None, for an optional constructor argument that is not supplied.
None == <<"None">>

Str(s) == [k \in 1..8 |->
             IF s[k] = 1 THEN "1" ELSE IF s[k] = 0 THEN "0"
             ELSE IF s[k] = 2 THEN "2" ELSE "x"]

\* Well-formed configuration strings, as sequences of characters.
S11110000 == Str(<<1,1,1,1,0,0,0,0>>)
S00001111 == Str(<<0,0,0,0,1,1,1,1>>)
S11000000 == Str(<<1,1,0,0,0,0,0,0>>)
S00000000 == Str(<<0,0,0,0,0,0,0,0>>)
S10000000 == Str(<<1,0,0,0,0,0,0,0>>)
S00000001 == Str(<<0,0,0,0,0,0,0,1>>)

ValidStrings ==
    {S11110000, S00001111, S11000000, S00000000, S10000000, S00000001}

\* The constructions the methods are explored from, <<direction, state,
\* inverted>>: the one of read_int.py, input pins {0, 1} at logical 0, a
\* direction string alone, an inverted string alone, and no argument.
Configs ==
    {<<S11110000, S11110000, S00001111>>,
     <<S11000000, S00000000, None>>,
     <<S11110000, None, None>>,
     <<S00000000, None, S10000000>>,
     <<None, None, None>>}

\* Malformed configuration strings: wrong length, or a wrong character.
Short == <<"1">>
Long == <<"1","0","0","0","0","0","0","0","0">>
Seven == <<"0","1","0","0","0","0","0">>
BadChar == Str(<<0,0,0,0,0,0,0,3>>)
BadDigit == Str(<<2,0,0,0,0,0,0,0>>)
Malformed == {Short, Long, Seven, BadChar, BadDigit, <<>>}

----------------------------------------------------------------------------
(* Python's integer operators on bytes *)

RECURSIVE XorN(_, _, _)
XorN(a, b, n) ==
    IF n = 0 THEN 0
    ELSE (((a % 2) + (b % 2)) % 2) + (2 * XorN(a \div 2, b \div 2, n - 1))

RECURSIVE OrN(_, _, _)
OrN(a, b, n) ==
    IF n = 0 THEN 0
    ELSE (IF (a % 2) = 1 \/ (b % 2) = 1 THEN 1 ELSE 0)
         + (2 * OrN(a \div 2, b \div 2, n - 1))

RECURSIVE AndN(_, _, _)
AndN(a, b, n) ==
    IF n = 0 THEN 0
    ELSE (IF (a % 2) = 1 /\ (b % 2) = 1 THEN 1 ELSE 0)
         + (2 * AndN(a \div 2, b \div 2, n - 1))

\* a ^ b, a | b, a & b for a, b in 0..255
BitXor(a, b) == XorN(a, b, NPins)
BitOr(a, b) == OrN(a, b, NPins)
BitAnd(a, b) == AndN(a, b, NPins)

\* 1 << pin
Shl1(pin) == 2 ^ pin

\* x >> pin & 1
Bit(x, pin) == (x \div (2 ^ pin)) % 2

\* _alter_bitmask: bitmask[0] | (1 << pin) if value, else bitmask[0] & ~(1 << pin).
\* On a byte, & ~m keeps exactly the bits of 255 - m.
alter_bitmask(bitmask, pin, value) ==
    IF value # 0
    THEN BitOr(bitmask, Shl1(pin))
    ELSE BitAnd(bitmask, 255 - Shl1(pin))

\* Mutant of WriteByte: the input pins are not forced high.
WriteByteNoInput(l, inv, inp) == BitXor(l, inv)

\* The byte _write_state and __init__ put in self._dstate before writeto:
\* (lstate ^ inverted) | input.
WriteByte(l, inv, inp) == BitOr(BitXor(l, inv), inp)

\* Mutant of ReadLogical: the inversion is not applied to the byte read.
ReadLogicalRaw(d, inv) == d

\* The logical state _read_state derives from the byte read: dstate ^ inverted.
ReadLogical(d, inv) == BitXor(d, inv)

\* What readfrom(address, 1) returns: a line reads low when the latch drives it
\* low or a peripheral holds it low (quasi-bidirectional port); before the
\* first write the latch drives no line.
RawByte(latch, lines) ==
    IF latch = <<>> THEN lines ELSE BitAnd(latch[1], lines)

----------------------------------------------------------------------------
(* Parsing of the configuration strings *)

Reverse(s) == [k \in 1..Len(s) |-> s[Len(s) + 1 - k]]

\* int(x) for one character x (base 10): raises ValueError unless x is a digit.
IsDigit(c) == c \in {"0", "1", "2"}
IntOfChar(c) == IF c = "0" THEN 0 ELSE IF c = "1" THEN 1 ELSE 2

\* int(s, 2) raises ValueError unless s is a non-empty string of '0'/'1'.
IsBinary(s) == Len(s) > 0 /\ \A k \in 1..Len(s) : s[k] \in {"0", "1"}

\* int(s, 2): the first character is the most significant bit.
RECURSIVE ParseBin(_)
ParseBin(s) ==
    IF Len(s) = 0 THEN 0
    ELSE (2 * ParseBin(SubSeq(s, 1, Len(s) - 1))) + IntOfChar(s[Len(s)])

\* Mutant of Pack: the string is not reversed, the first character is pin 7.
PackMsbFirst(s) == ParseBin(s)

\* int(''.join(reversed(list(s))), 2)
Pack(s) == ParseBin(Reverse(s))

----------------------------------------------------------------------------
(* Construction *)

ZeroCells == [c \in 0..(NCells - 1) |-> 0]

\* The fields as lines 57-76 of __init__ set them, before the arguments are read.
New ==
    [directions |-> [p \in Pins |-> UNDEF], input |-> 0, inverted |-> 0,
     lstate |-> 0, dstate |-> 0, err |-> "none", bus |-> <<>>]

\* Lines 78-81: the direction string.
InitDirection(f, d) ==
    IF d = None THEN f
    ELSE IF \E k \in 1..Len(d) : ~IsDigit(d[k])
         THEN [f EXCEPT !.err = "ValueError"]
    ELSE LET g == [f EXCEPT !.directions =
                        [p \in 0..(Len(d) - 1) |-> IntOfChar(d[p + 1])]]
         IN  IF IsBinary(d) THEN [g EXCEPT !.input = Pack(d)]
             ELSE [g EXCEPT !.err = "ValueError"]

\* Lines 82-83: the inverted string.
InitInverted(f, i) ==
    IF f.err # "none" \/ i = None THEN f
    ELSE IF IsBinary(i) THEN [f EXCEPT !.inverted = Pack(i)]
    ELSE [f EXCEPT !.err = "ValueError"]

\* Lines 84-88: the state string and the write of the first byte; ok is
\* whether the bus acknowledges the write.
InitState(f, s, ok) ==
    IF f.err # "none" \/ s = None THEN f
    ELSE IF ~IsBinary(s) THEN [f EXCEPT !.err = "ValueError"]
    ELSE LET l == Pack(s)
             d == WriteByte(l, f.inverted, f.input)
         IN  [f EXCEPT !.lstate = l, !.dstate = d, !.bus = <<<<"w", d>>>>,
                       !.err = IF ok THEN "none" ELSE "OSError"]

\* PCF8574(i2c, address, direction=d, state=s, inverted=i)
Construct(d, s, i, ok) == InitState(InitInverted(InitDirection(New, d), i), s, ok)

\* The latch after the calls in b, bus transactions <<kind, byte>>.
Latch(old, b, e) ==
    IF Len(b) > 0 /\ b[Len(b)][1] = "w" /\ e = "none"
    THEN <<b[Len(b)][2]>> ELSE old

\* The state in which PCF8574(...) leaves the program.
Constructed(f, a, o) ==
    /\ directions = f.directions
    /\ input = f.input
    /\ inverted = f.inverted
    /\ lstate = f.lstate
    /\ dstate = f.dstate
    /\ dstatef = FALSE
    /\ interrupt = 0
    /\ changed_pins = ZeroCells
    /\ reg = Latch(<<>>, f.bus, f.err)
    /\ irq = TRUE
    /\ handler = FALSE
    /\ op = o
    /\ chain = <<>>
    /\ ret = -1
    /\ err = f.err
    /\ bus = f.bus
    /\ args = a
    /\ pc = "idle"
    /\ ipc = "idle"
    /\ saved = TRUE
    /\ tmp = 0
    /\ edge = FALSE
    /\ armed = FALSE
    /\ net = 0

\* A device constructed from well-formed strings, the first byte acknowledged.
Init ==
    \E a \in Configs : Constructed(Construct(a[1], a[2], a[3], TRUE), a, <<"__init__">>)

----------------------------------------------------------------------------
(* The read and write protocols *)

\* _write_state, entered with self._lstate[0] = l, self._inverted[0] = inv and
\* self._input[0] = inp; ok is whether the bus acknowledges.
write_state(l, inv, inp, ok) ==
    IF ~dstatef
    THEN /\ dstate' = WriteByte(l, inv, inp)
         /\ bus' = <<<<"w", dstate'>>>>
         /\ IF ok
            THEN reg' = <<dstate'>> /\ dstatef' = FALSE /\ err' = "none"
            ELSE reg' = reg /\ dstatef' = TRUE /\ err' = "OSError"
    ELSE /\ UNCHANGED <<dstate, dstatef, reg>>
         /\ bus' = <<>>
         /\ err' = "none"

\* _read_state; lines are the levels the peripherals impose during the read.
read_state(lines, ok) ==
    IF ~dstatef
    THEN IF ok
         THEN /\ dstate' = RawByte(reg, lines)
              /\ lstate' = ReadLogical(dstate', inverted)
              /\ dstatef' = FALSE
              /\ bus' = <<<<"r", dstate'>>>>
              /\ err' = "none"
         ELSE /\ dstatef' = TRUE
              /\ UNCHANGED <<dstate, lstate>>
              /\ bus' = <<<<"r", -1>>>>
              /\ err' = "OSError"
    ELSE /\ UNCHANGED <<dstate, lstate, dstatef>>
         /\ bus' = <<>>
         /\ err' = "none"

----------------------------------------------------------------------------
(* The methods *)

\* Mutant of IsOutput: only pins known to be inputs are protected.
IsNotInput(d) == d # INPUT

\* self._directions[pin] == self.OUTPUT (line 156)
IsOutput(d) == d = OUTPUT

read_pin(pin, lines, ok) ==
    /\ read_state(lines, ok)
    /\ ret' = (IF err' = "none" THEN Bit(lstate', pin) ELSE -1)
    /\ op' = <<"read_pin", pin>>
    /\ chain' = (IF Len(chain) = 2 /\ chain[1] = pin
                 THEN <<pin, chain[2], 1>> ELSE <<>>)
    /\ UNCHANGED <<directions, input, inverted, interrupt, changed_pins,
                   reg, irq, handler, args>>
    /\ UNCHANGED irqv

write_pin(pin, value, ok) ==
    /\ IF IsOutput(directions[pin])
       THEN /\ lstate' = alter_bitmask(lstate, pin, value)
            /\ write_state(lstate', inverted, input, ok)
       ELSE /\ UNCHANGED <<lstate, dstate, dstatef, reg>>
            /\ bus' = <<>>
            /\ err' = "none"
    /\ ret' = -1
    /\ op' = <<"write_pin", pin, value>>
    /\ chain' = (IF chain = <<pin>> THEN <<pin, value>> ELSE <<>>)
    /\ UNCHANGED <<directions, input, inverted, interrupt, changed_pins,
                   irq, handler, args>>
    /\ UNCHANGED irqv

\* input_pin with one pin: line 178 stores the bytearray self._input in a cell
\* of the bytearray self._directions, which raises TypeError; lines 179-181
\* are never reached.
input_pin(pin, invert) ==
    /\ inverted' = alter_bitmask(inverted, pin, invert)
    /\ input' = alter_bitmask(input, pin, 1)
    /\ err' = "TypeError"
    /\ bus' = <<>>
    /\ ret' = -1
    /\ op' = <<"input_pin", pin, invert>>
    /\ chain' = <<>>
    /\ UNCHANGED <<directions, lstate, dstate, dstatef, interrupt,
                   changed_pins, reg, irq, handler, args>>
    /\ UNCHANGED irqv

output_pin(pin, invert, ok) ==
    /\ inverted' = alter_bitmask(inverted, pin, invert)
    /\ input' = alter_bitmask(input, pin, 0)
    /\ directions' = [directions EXCEPT ![pin] = OUTPUT]
    /\ lstate' = BitXor(dstate, inverted')
    /\ write_state(lstate', inverted', input', ok)
    /\ ret' = -1
    /\ op' = <<"output_pin", pin, invert>>
    /\ chain' = <<pin>>
    /\ UNCHANGED <<interrupt, changed_pins, irq, handler, args>>
    /\ UNCHANGED irqv

invert_pin(pin, invert, ok) ==
    /\ inverted' = alter_bitmask(inverted, pin, invert)
    /\ lstate' = BitXor(dstate, inverted')
    /\ write_state(lstate', inverted', input, ok)
    /\ ret' = -1
    /\ op' = <<"invert_pin", pin, invert>>
    /\ chain' = <<>>
    /\ UNCHANGED <<directions, input, interrupt, changed_pins, irq, handler,
                   args>>
    /\ UNCHANGED irqv

\* The lists of pins the setters are called on.
PinLists == {<<>>, <<0>>, <<NPins - 1>>, <<0, NPins - 1>>}

\* The for loop of a list branch (lines 171-174, 194-197, 219-220): its body
\* passes the list pin, not the element p, to _alter_bitmask, where 1 << pin
\* (lines 106, 108) raises TypeError before anything is assigned. An empty
\* list runs no iteration.
ListLoopRaises(pins) == Len(pins) > 0

\* input_pin, output_pin and invert_pin called with a list.
SetterNames == {"input_pin_list", "output_pin_list", "invert_pin_list"}

\* The three setters called with a list: the loop, then the recompute of
\* the logical state and the write (lines 179-181, 202-204, 223-225).
setter_list(name, pins, invert, ok) ==
    /\ IF ListLoopRaises(pins)
       THEN /\ err' = "TypeError"
            /\ bus' = <<>>
            /\ UNCHANGED <<lstate, dstate, dstatef, reg>>
       ELSE /\ lstate' = BitXor(dstate, inverted)
            /\ write_state(lstate', inverted, input, ok)
    /\ ret' = -1
    /\ op' = <<name, pins, invert>>
    /\ chain' = <<>>
    /\ UNCHANGED <<directions, input, inverted, interrupt, changed_pins, irq,
                   handler, args>>
    /\ UNCHANGED irqv

\* Mutant of DirectionIsInput: every pin is polled, whatever its direction.
DirectionIsAny(d, inp) == TRUE

\* self._directions[pin] == self._input (line 236): an int compared with a
\* bytearray; objects of these two types never compare equal.
DirectionIsInput(d, inp) == FALSE

\* The loop of _poll over pins pin..7 (lines 235-245): l and cp are
\* self._lstate[0] and self.changed_pins so far, readstate is line 234's.
RECURSIVE PollLoop(_, _, _, _, _, _)
PollLoop(pin, l, cp, readstate, dirs, inp) ==
    IF pin = NPins THEN <<l, cp>>
    ELSE IF /\ DirectionIsInput(dirs[pin], inp)
            /\ Bit(l, pin) # Bit(readstate, pin)
         THEN PollLoop(pin + 1,
                       alter_bitmask(l, pin, Bit(readstate, pin)),
                       [cp EXCEPT ![pin * 2] = 1,
                                  ![(pin * 2) + 1] = Bit(readstate, pin)],
                       readstate, dirs, inp)
         ELSE PollLoop(pin + 1, l, cp, readstate, dirs, inp)

\* The body of _poll (lines 232-246); lines are the levels the peripherals
\* impose during the read, ok is whether the bus answers.
PollEffect(lines, ok) ==
    /\ IF ok
       THEN LET raw == RawByte(reg, lines)
                r == PollLoop(0, lstate, changed_pins,
                              BitXor(raw, inverted), directions, input)
            IN  /\ dstate' = raw
                /\ lstate' = r[1]
                /\ changed_pins' = r[2]
                /\ interrupt' = interrupt + 1
                /\ net' = net + 1
                /\ bus' = <<<<"r", raw>>>>
                /\ err' = "none"
       ELSE /\ UNCHANGED <<dstate, lstate, changed_pins, interrupt, net>>
            /\ bus' = <<<<"r", -1>>>>
            /\ err' = "OSError"
    /\ ret' = -1
    /\ op' = <<"poll", lines>>
    /\ chain' = <<>>
    /\ UNCHANGED <<directions, input, inverted, dstatef, reg, irq, handler,
                   args>>

\* _poll, run by the interrupt controller on a falling edge of the interrupt
\* line: it needs a registered handler and interrupts enabled.
poll(lines, ok) ==
    /\ handler
    /\ irq
    /\ interrupt < MaxInterrupt
    /\ PollEffect(lines, ok)
    /\ UNCHANGED <<pc, ipc, saved, tmp, edge, armed>>

\* Lines 257-258: the value cells take the present logical state.
SeedCells(cp, l) ==
    [c \in 0..(NCells - 1) |-> IF c % 2 = 1 THEN Bit(l, c \div 2) ELSE cp[c]]

\* Mutant of AckCells: the whole buffer is cleared, as disable_int does.
AckCellsAll(cp) == [c \in 0..(NCells - 1) |-> 0]

\* Lines 270-271: the flag cells are cleared.
AckCells(cp) ==
    [c \in 0..(NCells - 1) |-> IF c % 2 = 0 THEN 0 ELSE cp[c]]

\* No call is in progress and the handler is not running.
Idle == pc = "idle" /\ ipc = "idle"

\* Mutant of disable_irq: the interrupts are left as they are.
disable_irq_kept(s) == s

\* machine.disable_irq() (lines 269, 277): the interrupt state it leaves,
\* s being the state before, which it returns.
disable_irq(s) == FALSE

enable_int ==
    /\ Idle
    /\ changed_pins' = SeedCells(changed_pins, lstate)
    /\ handler' = TRUE
    /\ armed' = TRUE
    /\ ret' = -1
    /\ err' = "none"
    /\ bus' = <<>>
    /\ op' = <<"enable_int">>
    /\ chain' = <<>>
    /\ UNCHANGED <<directions, input, inverted, lstate, dstate, dstatef,
                   interrupt, reg, irq, args>>
    /\ UNCHANGED <<pc, ipc, saved, tmp, edge, net>>

\* reset_int: disable_irq() returns the previous state, which enable_irq
\* restores on line 273.
reset_int ==
    /\ Idle
    /\ interrupt > -MaxInterrupt
    /\ changed_pins' = AckCells(changed_pins)
    /\ interrupt' = interrupt - 1
    /\ net' = net - 1
    /\ irq' = irq
    /\ ret' = -1
    /\ err' = "none"
    /\ bus' = <<>>
    /\ op' = <<"reset_int">>
    /\ chain' = <<>>
    /\ UNCHANGED <<directions, input, inverted, lstate, dstate, dstatef,
                   reg, handler, args>>
    /\ UNCHANGED <<pc, ipc, saved, tmp, edge, armed>>

disable_int ==
    /\ Idle
    /\ irq' = disable_irq(irq)
    /\ changed_pins' = ZeroCells
    /\ interrupt' = 0
    /\ net' = 0
    /\ armed' = FALSE
    /\ ret' = -1
    /\ err' = "none"
    /\ bus' = <<>>
    /\ op' = <<"disable_int">>
    /\ chain' = <<>>
    /\ UNCHANGED <<directions, input, inverted, lstate, dstate, dstatef,
                   reg, handler, args>>
    /\ UNCHANGED <<pc, ipc, saved, tmp, edge>>

----------------------------------------------------------------------------
(* The calls line by line, with the interrupt handler preempting them *)

\* Positions of the foreground: "wN" is line N of _write_state, "rN" line N
\* of _read_state or read_pin, "aN" line N of reset_int, each about to be
\* executed; "w121f" and "r130f" are inside writeto and readfrom.
InReset == {"a270", "a272", "a272s", "a273"}

\* What a step that only moves the foreground leaves alone.
Moved(to) ==
    /\ pc' = to
    /\ UNCHANGED <<directions, input, inverted, interrupt, changed_pins,
                   irq, handler, op, chain, err, args,
                   ipc, saved, edge, armed, net>>

\* write_pin, lines 156-158, up to the call of _write_state.
write_pin_156(pin, value) ==
    /\ Idle
    /\ IF IsOutput(directions[pin])
       THEN lstate' = alter_bitmask(lstate, pin, value) /\ pc' = "w115"
       ELSE UNCHANGED <<lstate, pc>>
    /\ op' = <<"write_pin", pin, value>>
    /\ chain' = <<>>
    /\ ret' = -1
    /\ err' = "none"
    /\ bus' = <<>>
    /\ UNCHANGED <<directions, input, inverted, dstate, dstatef, interrupt,
                   changed_pins, reg, irq, handler, args,
                   ipc, saved, tmp, edge, armed, net>>

\* Line 115: the test of the flag.
write_state_115 ==
    /\ pc = "w115" /\ ipc = "idle"
    /\ Moved(IF dstatef THEN "idle" ELSE "w116")
    /\ UNCHANGED <<lstate, dstate, dstatef, reg, ret, bus, tmp>>

\* Line 116: the flag is set.
write_state_116 ==
    /\ pc = "w116" /\ ipc = "idle"
    /\ dstatef' = TRUE
    /\ Moved("w118")
    /\ UNCHANGED <<lstate, dstate, reg, ret, bus, tmp>>

\* Line 118: the inverted pins.
write_state_118 ==
    /\ pc = "w118" /\ ipc = "idle"
    /\ dstate' = BitXor(lstate, inverted)
    /\ Moved("w120")
    /\ UNCHANGED <<lstate, dstatef, reg, ret, bus, tmp>>

\* Line 120: the input pins to high.
write_state_120 ==
    /\ pc = "w120" /\ ipc = "idle"
    /\ dstate' = BitOr(dstate, input)
    /\ Moved("w121")
    /\ UNCHANGED <<lstate, dstatef, reg, ret, bus, tmp>>

\* Line 121: writeto is called with the buffer self._dstate as it is now.
write_state_121_call ==
    /\ pc = "w121" /\ ipc = "idle"
    /\ tmp' = dstate
    /\ bus' = <<<<"w", dstate>>>>
    /\ Moved("w121f")
    /\ UNCHANGED <<lstate, dstate, dstatef, reg, ret>>

\* Line 121: writeto returns, the expander has latched the byte.
write_state_121_return ==
    /\ pc = "w121f" /\ ipc = "idle"
    /\ reg' = <<tmp>>
    /\ tmp' = 0
    /\ Moved("w122")
    /\ UNCHANGED <<lstate, dstate, dstatef, ret, bus>>

\* Line 122: the flag is cleared.
write_state_122 ==
    /\ pc = "w122" /\ ipc = "idle"
    /\ dstatef' = FALSE
    /\ Moved("idle")
    /\ UNCHANGED <<lstate, dstate, reg, ret, bus, tmp>>

\* read_pin, line 146: the call of _read_state.
read_pin_146(pin) ==
    /\ Idle
    /\ pc' = "r127"
    /\ tmp' = pin
    /\ op' = <<"read_pin", pin>>
    /\ chain' = <<>>
    /\ ret' = -1
    /\ err' = "none"
    /\ bus' = <<>>
    /\ UNCHANGED <<directions, input, inverted, lstate, dstate, dstatef,
                   interrupt, changed_pins, reg, irq, handler, args,
                   ipc, saved, edge, armed, net>>

\* Line 127: the test of the flag.
read_state_127 ==
    /\ pc = "r127" /\ ipc = "idle"
    /\ Moved(IF dstatef THEN "r147" ELSE "r128")
    /\ UNCHANGED <<lstate, dstate, dstatef, reg, ret, bus, tmp>>

\* Line 128: the flag is set.
read_state_128 ==
    /\ pc = "r128" /\ ipc = "idle"
    /\ dstatef' = TRUE
    /\ Moved("r130")
    /\ UNCHANGED <<lstate, dstate, reg, ret, bus, tmp>>

\* Line 130: readfrom is called.
read_state_130_call ==
    /\ pc = "r130" /\ ipc = "idle"
    /\ Moved("r130f")
    /\ UNCHANGED <<lstate, dstate, dstatef, reg, ret, bus, tmp>>

\* Line 130: readfrom returns the levels of the lines, kept in self._dstate.
read_state_130_return(lines) ==
    /\ pc = "r130f" /\ ipc = "idle"
    /\ dstate' = RawByte(reg, lines)
    /\ bus' = <<<<"r", dstate'>>>>
    /\ Moved("r132")
    /\ UNCHANGED <<lstate, dstatef, reg, ret, tmp>>

\* Line 132: the inverted pins.
read_state_132 ==
    /\ pc = "r132" /\ ipc = "idle"
    /\ lstate' = ReadLogical(dstate, inverted)
    /\ Moved("r134")
    /\ UNCHANGED <<dstate, dstatef, reg, ret, bus, tmp>>

\* Line 134: the flag is cleared.
read_state_134 ==
    /\ pc = "r134" /\ ipc = "idle"
    /\ dstatef' = FALSE
    /\ Moved("r147")
    /\ UNCHANGED <<lstate, dstate, reg, ret, bus, tmp>>

\* read_pin, line 147: the bit of the pin is returned.
read_pin_147 ==
    /\ pc = "r147" /\ ipc = "idle"
    /\ ret' = Bit(lstate, tmp)
    /\ tmp' = 0
    /\ Moved("idle")
    /\ UNCHANGED <<lstate, dstate, dstatef, reg, bus>>

\* reset_int, line 269: the interrupt state is saved and interrupts masked.
reset_int_269 ==
    /\ Idle
    /\ interrupt > -MaxInterrupt
    /\ saved' = irq
    /\ irq' = disable_irq(irq)
    /\ pc' = "a270"
    /\ op' = <<"reset_int">>
    /\ chain' = <<>>
    /\ ret' = -1
    /\ err' = "none"
    /\ bus' = <<>>
    /\ UNCHANGED <<directions, input, inverted, lstate, dstate, dstatef,
                   interrupt, changed_pins, reg, handler, args,
                   ipc, tmp, edge, armed, net>>

\* Lines 270-271: the flag cells are cleared.
reset_int_270 ==
    /\ pc = "a270" /\ ipc = "idle"
    /\ changed_pins' = AckCells(changed_pins)
    /\ pc' = "a272"
    /\ UNCHANGED <<directions, input, inverted, lstate, dstate, dstatef,
                   interrupt, reg, irq, handler, op, chain, ret, err, bus,
                   args, ipc, saved, tmp, edge, armed, net>>

\* Line 272, self.interrupt -= 1: the counter is loaded.
reset_int_272_load ==
    /\ pc = "a272" /\ ipc = "idle"
    /\ tmp' = interrupt
    /\ pc' = "a272s"
    /\ UNCHANGED <<directions, input, inverted, lstate, dstate, dstatef,
                   interrupt, changed_pins, reg, irq, handler, op, chain,
                   ret, err, bus, args, ipc, saved, edge, armed, net>>

\* Line 272: the counter loaded, less one, is stored.
reset_int_272_store ==
    /\ pc = "a272s" /\ ipc = "idle"
    /\ interrupt' = tmp - 1
    /\ tmp' = 0
    /\ pc' = "a273"
    /\ UNCHANGED <<directions, input, inverted, lstate, dstate, dstatef,
                   changed_pins, reg, irq, handler, op, chain, ret, err, bus,
                   args, ipc, saved, edge, armed, net>>

\* Line 273: the saved interrupt state is restored, and reset_int returns.
reset_int_273 ==
    /\ pc = "a273" /\ ipc = "idle"
    /\ irq' = saved
    /\ net' = net - 1
    /\ pc' = "idle"
    /\ UNCHANGED <<directions, input, inverted, lstate, dstate, dstatef,
                   interrupt, changed_pins, reg, handler, op, chain, ret,
                   err, bus, args, ipc, saved, tmp, edge, armed>>

\* The interrupt line falls while a handler is registered on it (lines
\* 259-262): the edge waits to be served.
falling_edge ==
    /\ handler
    /\ ~edge
    /\ edge' = TRUE
    /\ UNCHANGED <<dev, env, obs, pc, ipc, saved, tmp, armed, net>>

\* The interrupt controller serves the edge, wherever the foreground stands:
\* _poll starts, and readfrom is called on line 232.
poll_232_call ==
    /\ handler
    /\ irq
    /\ edge
    /\ ipc = "idle"
    /\ interrupt < MaxInterrupt
    /\ edge' = FALSE
    /\ ipc' = "p232"
    /\ UNCHANGED <<dev, env, obs, pc, saved, tmp, armed, net>>

\* readfrom returns on line 232, and _poll runs to its end (lines 232-246).
poll_232_return(lines) ==
    /\ ipc = "p232"
    /\ PollEffect(lines, TRUE)
    /\ ipc' = "idle"
    /\ UNCHANGED <<pc, saved, tmp, edge, armed>>

----------------------------------------------------------------------------
(* Specifications *)

\* The calls on the port, the bus answering with one of the outcomes in oks.
Port(oks) ==
    \/ \E pin \in ArgPins, lines \in LineLevels, ok \in oks :
          read_pin(pin, lines, ok)
    \/ \E pin \in ArgPins, value \in {0, 1}, ok \in oks :
          write_pin(pin, value, ok)
    \/ \E pin \in ArgPins, invert \in {0, 1} : input_pin(pin, invert)
    \/ \E pin \in ArgPins, invert \in {0, 1}, ok \in oks :
          output_pin(pin, invert, ok)
    \/ \E pin \in ArgPins, invert \in {0, 1}, ok \in oks :
          invert_pin(pin, invert, ok)

\* The port state engine, on a bus whose transactions complete.
Next == Port({TRUE})

Spec == Init /\ [][Next]_vars

\* The port state engine of the device of read_int.py, on a bus whose
\* transactions may fail.
InitBus ==
    Constructed(Construct(S11110000, S11110000, S00001111, TRUE),
                <<S11110000, S11110000, S00001111>>, <<"__init__">>)

NextBus == Port(BOOLEAN)

SpecBus == InitBus /\ [][NextBus]_vars

\* The change poller: the interrupt methods, with the reads and writes that
\* change the logical state in between.
NextPoller ==
    \/ \E lines \in LineLevels, ok \in BOOLEAN : poll(lines, ok)
    \/ enable_int
    \/ reset_int
    \/ disable_int
    \/ \E pin \in ArgPins, lines \in LineLevels : read_pin(pin, lines, TRUE)
    \/ \E pin \in ArgPins, value \in {0, 1} : write_pin(pin, value, TRUE)

SpecPoller == Init /\ [][NextPoller]_vars

\* The setters called with lists of pins, between single-pin calls.
NextList ==
    \/ \E name \in SetterNames, pins \in PinLists, invert \in {0, 1} :
          setter_list(name, pins, invert, TRUE)
    \/ \E pin \in ArgPins, invert \in {0, 1} : output_pin(pin, invert, TRUE)
    \/ \E pin \in ArgPins, value \in {0, 1} : write_pin(pin, value, TRUE)
    \/ \E pin \in ArgPins, lines \in LineLevels : read_pin(pin, lines, TRUE)

SpecList == Init /\ [][NextList]_vars

\* write_pin, line by line.
WriteSteps ==
    \/ \E pin \in ArgPins, value \in {0, 1} : write_pin_156(pin, value)
    \/ write_state_115
    \/ write_state_116
    \/ write_state_118
    \/ write_state_120
    \/ write_state_121_call
    \/ write_state_121_return
    \/ write_state_122

\* read_pin, line by line.
ReadSteps ==
    \/ \E pin \in ArgPins : read_pin_146(pin)
    \/ read_state_127
    \/ read_state_128
    \/ read_state_130_call
    \/ \E lines \in LineLevels : read_state_130_return(lines)
    \/ read_state_132
    \/ read_state_134
    \/ read_pin_147

\* reset_int past its first line.
Continue ==
    \/ reset_int_270
    \/ reset_int_272_load
    \/ reset_int_272_store
    \/ reset_int_273

\* The interrupt controller runs the handler.
Dispatch ==
    \/ poll_232_call
    \/ \E lines \in LineLevels : poll_232_return(lines)

\* The reads and writes of read_int.py's device, preempted by the handler.
NextIrq == WriteSteps \/ ReadSteps \/ enable_int \/ falling_edge \/ Dispatch

SpecIrq == InitBus /\ [][NextIrq]_vars

\* The interrupt methods, reset_int line by line, with the handler.
NextAck ==
    \/ enable_int
    \/ disable_int
    \/ reset_int_269
    \/ Continue
    \/ falling_edge
    \/ Dispatch

SpecAck == Init /\ [][NextAck]_vars

\* The interrupt controller serves an edge that waits whenever interrupts
\* are enabled, and a call of reset_int that has started runs to its end.
SpecAckFair == SpecAck /\ SF_vars(Dispatch) /\ WF_vars(Continue)

----------------------------------------------------------------------------
(* Construction alone, from any strings *)

ConfigStrings == {None} \cup ValidStrings \cup Malformed

\* Before PCF8574(...) runs.
InitCtor ==
    Constructed(New, <<None, None, None>>, <<"new">>)

construct(d, s, i, ok) ==
    LET f == Construct(d, s, i, ok) IN
    /\ op = <<"new">>
    /\ directions' = f.directions
    /\ input' = f.input
    /\ inverted' = f.inverted
    /\ lstate' = f.lstate
    /\ dstate' = f.dstate
    /\ reg' = Latch(reg, f.bus, f.err)
    /\ op' = <<"__init__">>
    /\ err' = f.err
    /\ bus' = f.bus
    /\ args' = <<d, s, i>>
    /\ UNCHANGED <<dstatef, interrupt, changed_pins, irq, handler, chain, ret>>
    /\ UNCHANGED irqv

NextCtor ==
    \E d \in ConfigStrings, s \in ConfigStrings, i \in ConfigStrings,
       ok \in BOOLEAN : construct(d, s, i, ok)

SpecCtor == InitCtor /\ [][NextCtor]_vars

----------------------------------------------------------------------------
(* Properties *)

\* The last call read the byte last written to the expander, or skipped the
\* read because the flag was set.
Echoed == bus = <<>> \/ (reg # <<>> /\ bus = <<<<"r", reg[1]>>>>)

\* C1: after output_pin(p) then write_pin(p, v), a read_pin(p) that returns on
\* an echoing bus returns v.
C1_RoundTrip ==
    (Len(chain) = 3 /\ err = "none" /\ Echoed) => ret = chain[2]

\* C1 witness: the three calls were made on an inverted pin, 1 was written
\* and the read went over the bus.
C1_Witness ==
    /\ Len(chain) = 3
    /\ err = "none"
    /\ reg # <<>>
    /\ bus = <<<<"r", reg[1]>>>>
    /\ chain[2] = 1
    /\ Bit(inverted, chain[1]) = 1
    /\ ret = 1

\* C2: write_pin on a pin whose direction is not OUTPUT issues no bus
\* transaction and changes no field of the device.
C2_WriteIgnored ==
    [][\A p \in Pins, v \in {0, 1} :
         (op' = <<"write_pin", p, v>> /\ directions[p] # OUTPUT)
         => /\ bus' = <<>>
            /\ UNCHANGED <<lstate, dstate, directions, input, inverted,
                           interrupt, changed_pins, reg, dstatef>>]_vars

\* C2 witness: write_pin(p, 1) was called on an UNDEF pin whose logical bit
\* is 0.
C2_Witness ==
    /\ op[1] = "write_pin"
    /\ op[3] = 1
    /\ directions[op[2]] = UNDEF
    /\ Bit(lstate, op[2]) = 0
    /\ bus = <<>>

\* C3: a poll that reads raw byte r records every INPUT pin whose bit in
\* r XOR inverted differs from the stored logical bit: the logical bit takes
\* the new value, the flag cell is 1 and the value cell is the new value.
C3_PollRecords ==
    [][\A lines \in LineLevels :
         (op' = <<"poll", lines>> /\ err' = "none")
         => \A p \in Pins :
              LET new == Bit(BitXor(bus'[1][2], inverted), p) IN
              (directions[p] = INPUT /\ new # Bit(lstate, p))
              => /\ Bit(lstate', p) = new
                 /\ changed_pins'[2 * p] = 1
                 /\ changed_pins'[(2 * p) + 1] = new]_vars

\* C4: reset_int clears every flag cell, keeps every value cell and
\* decrements the counter by 1; a completed poll increments it by 1, so that
\* a poll followed by reset_int leaves the counter where it was.
C4_Acknowledge ==
    [][/\ op' = <<"reset_int">>
          => /\ \A p \in Pins :
                  /\ changed_pins'[2 * p] = 0
                  /\ changed_pins'[(2 * p) + 1] = changed_pins[(2 * p) + 1]
             /\ interrupt' = interrupt - 1
       /\ \A lines \in LineLevels :
            (op' = <<"poll", lines>> /\ err' = "none")
            => interrupt' = interrupt + 1]_vars

\* C4 witness: reset_int brought the counter back from 1 to 0 and a value
\* cell still holds 1.
C4_Witness ==
    /\ op = <<"reset_int">>
    /\ interrupt = 0
    /\ handler
    /\ \E p \in Pins : changed_pins[(2 * p) + 1] = 1

\* C5: bit p of the input mask is 1 exactly when directions[p] is INPUT.
C5_MaskMatchesDirection ==
    \A p \in Pins : (Bit(input, p) = 1) <=> (directions[p] = INPUT)

\* What (logical XOR inverted) OR input is, one pin at a time.
ProtocolBit(l, inv, inp, p) ==
    IF Bit(inp, p) = 1 THEN 1 ELSE (Bit(l, p) + Bit(inv, p)) % 2

\* The last call is one that goes through the write protocol.
ReachesWrite(o, dirs) ==
    \/ o[1] \in {"output_pin", "invert_pin"}
    \/ o[1] = "write_pin" /\ dirs[o[2]] = OUTPUT

\* C6, bytes: every byte sent by the last call is (lstate XOR inverted) OR
\* input of the state at the write.
C6_Bytes ==
    \A k \in 1..Len(bus) :
        bus[k][1] = "w"
        => \A p \in Pins :
             Bit(bus[k][2], p) = ProtocolBit(lstate, inverted, input, p)

\* C6: every byte sent to the device is (lstate XOR inverted) OR input, and
\* a call that reaches the write protocol with the flag clear issues exactly
\* one write.
C6_WriteProtocol ==
    /\ []C6_Bytes
    /\ [][(ReachesWrite(op', directions') /\ ~dstatef)
          => (Len(bus') = 1 /\ bus'[1][1] = "w")]_vars

\* C6 witness: write_pin sent a byte in which an input pin is high although
\* its logical bit XOR its inversion is 0.
C6_Witness ==
    /\ op[1] = "write_pin"
    /\ Len(bus) = 1
    /\ bus[1][1] = "w"
    /\ \E p \in Pins :
         /\ Bit(input, p) = 1
         /\ Bit(lstate, p) = Bit(inverted, p)
         /\ Bit(bus[1][2], p) = 1

\* C7: invert_pin(p, inv) with inv different from the present inversion of p
\* complements logical bit p, keeps directions[p] and the input mask, and
\* writes a byte whose bit p is the bit p the expander held before (when a
\* byte had been written to it).
C7_InversionFlips ==
    [][\A p \in Pins, inv \in {0, 1} :
         (op' = <<"invert_pin", p, inv>> /\ inv # Bit(inverted, p))
         => /\ Bit(lstate', p) # Bit(lstate, p)
            /\ directions'[p] = directions[p]
            /\ input' = input
            /\ Len(bus') = 1
            /\ bus'[1][1] = "w"
            /\ reg # <<>> => Bit(bus'[1][2], p) = Bit(reg[1], p)]_vars

\* C8: output_pin(p, inv) called a second time changes none of the
\* direction vector, input mask, inverted mask, logical and digital state.
C8_OutputIdempotent ==
    [][\A p \in Pins, inv \in {0, 1} :
         (op = <<"output_pin", p, inv>> /\ op' = op)
         => UNCHANGED <<directions, input, inverted, lstate, dstate>>]_vars

\* A well-formed configuration string, and an optional one.
WellFormed(s) == Len(s) = NPins /\ \A k \in 1..Len(s) : s[k] \in {"0", "1"}
Optional(s) == s = None \/ WellFormed(s)

\* The bit that character p of the string s stands for (0 when s is None).
CharBit(s, p) == IF s = None THEN 0 ELSE IF s[p + 1] = "1" THEN 1 ELSE 0

C10_Rejected ==
    (op = <<"__init__">> /\ \E k \in 1..3 : ~Optional(args[k]))
    => (err = "ConfigurationError" /\ bus = <<>>)

\* C12: for every pin whose direction is OUTPUT, the digital bit is the
\* logical bit XOR the inversion bit.
C12_OutputInvariant ==
    \A p \in Pins :
        directions[p] = OUTPUT
        => Bit(dstate, p) = (Bit(lstate, p) + Bit(inverted, p)) % 2

\* C14: a poll that completes increments the counter by exactly 1, changes
\* none of the direction vector, input mask and inverted mask, and changes
\* neither the cells nor the logical bit of a pin that is not INPUT.
C14_PollFrame ==
    [][\A lines \in LineLevels :
         (op' = <<"poll", lines>> /\ err' = "none")
         => /\ interrupt' = interrupt + 1
            /\ UNCHANGED <<directions, input, inverted>>
            /\ \A p \in Pins :
                 directions[p] # INPUT
                 => /\ changed_pins'[2 * p] = changed_pins[2 * p]
                    /\ changed_pins'[(2 * p) + 1] = changed_pins[(2 * p) + 1]
                    /\ Bit(lstate', p) = Bit(lstate, p)]_vars

\* C14 witness: a poll completed in which the byte read differs from the
\* logical state on a pin that is not INPUT.
C14_Witness ==
    /\ op[1] = "poll"
    /\ err = "none"
    /\ \E p \in Pins :
         /\ directions[p] # INPUT
         /\ Bit(BitXor(dstate, inverted), p) # Bit(lstate, p)

\* C15: after disable_int the report buffer is 16 zero cells, the counter
\* is 0 and no handler is attached to the interrupt line; buffer and counter
\* stay so while enable_int is not called.
C15_Disabled ==
    /\ [](op = <<"disable_int">>
          => (changed_pins = ZeroCells /\ interrupt = 0 /\ ~handler))
    /\ [][(op = <<"disable_int">> /\ op'[1] # "enable_int")
          => (changed_pins' = ZeroCells /\ interrupt' = 0)]_vars

\* C17: the flag is clear between calls, also after a transaction failed,
\* so that every read_pin, and every write_pin on an OUTPUT pin, issues its
\* bus transaction.
C17_FlagReleased ==
    /\ [](~dstatef)
    /\ [][(\/ op'[1] = "read_pin"
           \/ op'[1] = "write_pin" /\ directions[op'[2]] = OUTPUT)
          => Len(bus') = 1]_vars

\* C19: the interrupt counter is never negative.
C19_NonNegative == interrupt >= 0

InList(p, pins) == \E k \in 1..Len(pins) : pins[k] = p

\* What a setter called with the list pins has to leave: role is the
\* direction given to the listed pins (UNDEF: the direction is kept).
ListEffect(pins, invert, role) ==
    /\ \A p \in Pins :
         IF InList(p, pins)
         THEN /\ Bit(inverted', p) = invert
              /\ role # UNDEF
                 => (directions'[p] = role /\ Bit(input', p) = role)
         ELSE /\ Bit(inverted', p) = Bit(inverted, p)
              /\ directions'[p] = directions[p]
              /\ Bit(input', p) = Bit(input, p)
    /\ role = UNDEF => UNCHANGED <<directions, input>>
    /\ lstate' = BitXor(dstate, inverted')
    /\ dstate' = WriteByte(lstate', inverted', input')
    /\ bus' = <<<<"w", dstate'>>>>
    /\ err' = "none"

\* C11: a setter called with a list gives every listed pin the role and the
\* inversion asked for, keeps direction and inversion of the other pins, and
\* ends with one recompute of the logical state and one write.
C11_ListSetter ==
    [][\A pins \in PinLists, invert \in {0, 1} :
         /\ op' = <<"input_pin_list", pins, invert>>
            => ListEffect(pins, invert, INPUT)
         /\ op' = <<"output_pin_list", pins, invert>>
            => ListEffect(pins, invert, OUTPUT)
         /\ op' = <<"invert_pin_list", pins, invert>>
            => ListEffect(pins, invert, UNDEF)]_vars

\* The bus transactions in flight: the foreground's and the handler's.
InFlight ==
    (IF pc \in {"w121f", "r130f"} THEN 1 ELSE 0)
    + (IF ipc = "p232" THEN 1 ELSE 0)

\* C13: at most one read or write of the register is in flight.
C13_SingleTransaction == InFlight <= 1

\* C16: the byte handed to writeto has bit p set for every pin p of the
\* input mask.
C16_InputsHigh ==
    pc = "w121f" => \A p \in Pins : Bit(input, p) = 1 => Bit(tmp, p) = 1

\* C18: the handler never starts while reset_int is between its first and
\* its last line, and the counter is the number of polls completed less the
\* number of reset_int calls completed, except between the decrement of
\* reset_int and its return.
C18_CriticalSection ==
    /\ [](pc # "a273" => interrupt = net)
    /\ [][(ipc = "idle" /\ ipc' # "idle") => pc \notin InReset]_vars

\* C18 witness: an edge arrives while reset_int, called with interrupts
\* enabled and one report pending, stands between the load and the store
\* of the counter.
C18_Witness ==
    /\ pc = "a272s"
    /\ edge
    /\ handler
    /\ saved
    /\ ~irq
    /\ interrupt = 1

\* C20: once enable_int was called, and while disable_int is not called,
\* an edge that waits is eventually served by the handler.
C20_Rearm ==
    (armed /\ edge /\ interrupt < MaxInterrupt) ~> (~edge \/ ~armed)

====
